---- MODULE Spec2Model ----
(***************************************************************************)
(* Model of the multilayer viscous kernel of the-liquid-lab/full-layered:  *)
(*   src/cap_diffusion.h    vertical diffusion (Neumann/Neumann and        *)
(*                          Neumann/Navier), horizontal diffusion, and the *)
(*                          viscous_term event that drives them;           *)
(*   src/viscous_surface.h  the tangential-stress relaxation of du_nu.     *)
(*                                                                         *)
(* The C code computes in double precision.  The model computes in exact   *)
(* rational arithmetic: a number is a pair <<n, d>> in lowest terms with   *)
(* d > 0.  The grid is one-dimensional (foreach_dimension() has the single *)
(* direction x): columns 0..ncol-1 with one ghost column on each side.     *)
(***************************************************************************)
EXTENDS Integers, Sequences, FiniteSets, TLC

VARIABLES
  pc,      \* position in the routine or event being executed
  nl,      \* number of layers
  h,       \* layer heights: h[i][l], column i, layer l (l = -1 and l = nl are
           \* the memory next to the column's layers)
  u,       \* the layered scalar being diffused (u.x): u[i][l]
  call,    \* arguments of the current vertical_diffusion_* call
  tri,     \* a, b, c, rhs of the current call
  tri0,    \* history: the system as assembled, before elimination
  sIn,     \* history: the scalar on entry of the routine, per column
  acc,     \* history: the <<array, layer index>> pairs accessed in the call
  w,       \* vertical velocity: w[i][l]
  eta,     \* free-surface elevation: eta[i]
  Delta,   \* grid spacing
  visc_activate,
  du_nu,   \* du_nu.x[i]
  dut,     \* the field the handle dut points to: "dut0" (zero) or "du_nu"
  iter,    \* locals of the tangential-stress event
  maxdiff,
  order,   \* the order in which foreach() visits the columns
  nvis,    \* number of columns foreach() has visited in the current pass
  prev,    \* history: du_nu when the current pass began
  nupd,    \* history: number of column updates the relaxation has made
  hd,      \* arguments D, dt, dst of the current horizontal_diffusion call
  d2s,     \* scalar d2s[]: d2s[slot][i]
  d2sz,    \* scalar d2sz[]: d2sz[slot][i]
  zl,      \* scalar zl[]: zl[i]
  zb,      \* bathymetry: zb[i]
  hl,      \* layer index of the loop horizontal_diffusion is in
  layout,  \* how many layers the storage of a field declared scalar f[] has
  dry,     \* the threshold below which a layer is dry
  nu,      \* viscosity
  h_diffusion,
  dtv,     \* the timestep dt
  ha,      \* face acceleration ha.x[i][l]
  hf,      \* face height hf.x[i][l]
  step,    \* the timestep number i
  ev,      \* index of the event of the timestep that runs next
  col,     \* number of columns the foreach() of the orchestrator has done
  u0,      \* history: u when the orchestrator began
  du_old,  \* history: du_nu at the end of the previous timestep
  log      \* history: the steps the orchestrator has made in this timestep

vdvars == <<pc, nl, h, u, call, tri, tri0, sIn, acc>>
vdvars_but_pc == <<nl, h, u, call, tri, tri0, sIn, acc>>
tsvars == <<w, eta, Delta, visc_activate, du_nu, dut, iter, maxdiff, order, nvis, prev, nupd>>
hdvars == <<hd, d2s, d2sz, zl, zb, hl, layout, dry>>
stvars == <<nu, h_diffusion, dtv, ha, hf, step, ev, col, u0, du_old, log>>
vars == <<vdvars, tsvars, hdvars, stvars>>

(***************************************************************************)
(* Bounds of the model.                                                    *)
(***************************************************************************)
MaxNl == 3
\* number of columns of the grid
NCol == 3
\* number of layers of the grid
GridNl == 2
\* number of timesteps
MaxStep == 2

\* while(iter<10)
NIter == 10

(***************************************************************************)
(* Exact rational arithmetic.                                              *)
(***************************************************************************)
Abs(x) == IF x < 0 THEN -x ELSE x

RECURSIVE Gcd(_, _)
Gcd(x, y) == IF y = 0 THEN x ELSE Gcd(y, x % y)

Q(n, d) ==
  LET g == Gcd(Abs(n), Abs(d))
      sg == IF d < 0 THEN -1 ELSE 1
  IN  <<sg * (n \div g), sg * (d \div g)>>

QI(n) == <<n, 1>>
Zero == QI(0)
One == QI(1)
Two == QI(2)
Three == QI(3)
Four == QI(4)

QNeg(x) == <<-x[1], x[2]>>

QAdd(x, y) ==
  LET g == Gcd(x[2], y[2])
      L == (x[2] \div g) * y[2]
  IN  Q(x[1] * (L \div x[2]) + y[1] * (L \div y[2]), L)

QSub(x, y) == QAdd(x, QNeg(y))

QMul(x, y) ==
  LET g1 == Gcd(Abs(x[1]), y[2])
      g2 == Gcd(Abs(y[1]), x[2])
  IN  Q((x[1] \div g1) * (y[1] \div g2), (x[2] \div g2) * (y[2] \div g1))

\* 1/y; defined for y # 0 only: a zero divisor stops the evaluation, where the
\* C code would go on with inf or NaN
QInv(y) == CASE y[1] > 0 -> <<y[2], y[1]>> [] y[1] < 0 -> <<-y[2], -y[1]>>

QDiv(x, y) == QMul(x, QInv(y))

QLt(x, y) == x[1] * y[2] < y[1] * x[2]

QLe(x, y) == x[1] * y[2] <= y[1] * x[2]

sq(x) == QMul(x, x)

RECURSIVE QSum(_, _, _)
QSum(f, lo, hi) == IF lo > hi THEN Zero ELSE QAdd(f[lo], QSum(f, lo + 1, hi))

(***************************************************************************)
(* The tridiagonal system of one column: double a[nl], b[nl], c[nl],       *)
(* rhs[nl].  An entry the code has not written yet is Uninit.              *)
(***************************************************************************)
Uninit == "uninit"

Layers(n) == 0 .. n - 1

TriNew(n) ==
  [a |-> [l \in Layers(n) |-> Uninit], b |-> [l \in Layers(n) |-> Uninit],
   c |-> [l \in Layers(n) |-> Uninit], rhs |-> [l \in Layers(n) |-> Uninit]]

\* foreach_layer() rhs[_layer] = s[]*h[];
RhsInit(t, hc, sc, n) ==
  [t EXCEPT !.rhs = [l \in Layers(n) |-> QMul(sc[l], hc[l])]]

\* - 2.*D*dt/(x)
Coupling(D, dt, x) == QDiv(QNeg(QMul(QMul(Two, D), dt)), x)

\* for (int l = 1; l < nl - 1; l++) { a[l] = ...; c[l] = ...; b[l] = ...; }
InteriorRows(t, hc, n, D, dt) ==
  LET al(l) == Coupling(D, dt, QAdd(hc[l - 1], hc[l]))
      cl(l) == Coupling(D, dt, QAdd(hc[l], hc[l + 1]))
      inner == 1 .. n - 2
  IN  [t EXCEPT
         !.a = [l \in Layers(n) |-> IF l \in inner THEN al(l) ELSE @[l]],
         !.c = [l \in Layers(n) |-> IF l \in inner THEN cl(l) ELSE @[l]],
         !.b = [l \in Layers(n) |->
                  IF l \in inner THEN QSub(QSub(hc[l], al(l)), cl(l)) ELSE @[l]]]

\* top row of vertical_diffusion_NeumanNeuman
NN_TopRow(t, hc, n, D, dt, dst) ==
  LET an == Coupling(D, dt, QAdd(hc[n - 2], hc[n - 1]))
  IN  [t EXCEPT !.a[n - 1] = an,
                !.b[n - 1] = QSub(hc[n - 1], an),
                !.rhs[n - 1] = QAdd(@, QMul(QMul(D, dt), dst))]

\* top row of vertical_diffusion_NeumanNavier
NV_TopRow(t, hc, n, D, dt, dst) ==
  LET an == Coupling(D, dt, hc[n - 1])
  IN  [t EXCEPT !.a[n - 1] = an,
                !.b[n - 1] = QSub(hc[n - 1], an),
                !.rhs[n - 1] = QAdd(@, QMul(QMul(D, dt), dst))]

\* a bottom row whose coupling uses the height of the bottom layer alone
NN_BottomRowOneSided(t, hc, D, dt, dsb) ==
  LET c0 == Coupling(D, dt, hc[0])
  IN  [t EXCEPT !.c[0] = c0,
                !.b[0] = QSub(hc[0], c0),
                !.rhs[0] = QSub(@, QMul(QMul(D, dt), dsb))]

\* bottom row of vertical_diffusion_NeumanNeuman
NN_BottomRow(t, hc, D, dt, dsb) ==
  LET c0 == Coupling(D, dt, QAdd(hc[0], hc[1]))
  IN  [t EXCEPT !.c[0] = c0,
                !.b[0] = QSub(hc[0], c0),
                !.rhs[0] = QSub(@, QMul(QMul(D, dt), dsb))]

\* a denominator without the square
NavierDenLinear(h0, h1, lambda_b) ==
  QAdd(QMul(h0, QAdd(h0, h1)),
       QMul(QMul(Two, lambda_b),
            QAdd(QAdd(QMul(QMul(Three, h0), h1), QMul(Two, sq(h0))), sq(h1))))

\* double den = h[]*sq(h[] + h[0,0,1]) + 2.*lambda_b*(3.*h[]*h[0,0,1] + 2.*sq(h[]) + sq(h[0,0,1]));
NavierDen(h0, h1, lambda_b) ==
  QAdd(QMul(h0, sq(QAdd(h0, h1))),
       QMul(QMul(Two, lambda_b),
            QAdd(QAdd(QMul(QMul(Three, h0), h1), QMul(Two, sq(h0))), sq(h1))))

\* bottom row of vertical_diffusion_NeumanNavier
NV_BottomRow(t, hc, D, dt, s_b, lambda_b) ==
  LET h0 == hc[0]
      h1 == hc[1]
      den == NavierDen(h0, h1, lambda_b)
      tdD == QMul(QMul(Two, dt), D)
      h0h1 == QMul(QMul(Three, h0), h1)
  IN  [t EXCEPT
         !.b[0] = QAdd(h0, QMul(tdD, QAdd(QDiv(One, QAdd(h0, h1)),
                    QDiv(QAdd(QAdd(sq(h1), h0h1), QMul(Three, sq(h0))), den)))),
         !.c[0] = QMul(QNeg(tdD), QAdd(QDiv(One, QAdd(h0, h1)), QDiv(sq(h0), den))),
         !.rhs[0] = QAdd(@, QDiv(QMul(QMul(tdD, s_b),
                      QAdd(QAdd(sq(h1), h0h1), QMul(Two, sq(h0)))), den))]

\* if (nl == 1) { b[0] += c[0]; rhs[0] += (- c[0]*h[] - D*dt) * dst; }
SingleLayer(t, hc, D, dt, dst) ==
  [t EXCEPT !.b[0] = QAdd(@, t.c[0]),
            !.rhs[0] = QAdd(@, QMul(QSub(QMul(QNeg(t.c[0]), hc[0]), QMul(D, dt)), dst))]

(***************************************************************************)
(* Thomas algorithm, as both variants run it                               *)
(***************************************************************************)
\* an elimination that divides rhs by the pivot of its own row
ForwardStepStalePivot(t, l) ==
  [t EXCEPT !.b[l] = QSub(@, QDiv(QMul(t.a[l], t.c[l - 1]), t.b[l - 1])),
            !.rhs[l] = QSub(@, QDiv(QMul(t.a[l], t.rhs[l - 1]), t.b[l]))]

\* one iteration of: for (l = 1; l < nl; l++) { b[l] -= ...; rhs[l] -= ...; }
ForwardStep(t, l) ==
  [t EXCEPT !.b[l] = QSub(@, QDiv(QMul(t.a[l], t.c[l - 1]), t.b[l - 1])),
            !.rhs[l] = QSub(@, QDiv(QMul(t.a[l], t.rhs[l - 1]), t.b[l - 1]))]

RECURSIVE ForwardFrom(_, _, _)
ForwardFrom(t, l, n) == IF l >= n THEN t ELSE ForwardFrom(ForwardStep(t, l), l + 1, n)

ThomasForward(t, n) == ForwardFrom(t, 1, n)

\* one iteration of: for (l = nl - 2; l >= 0; l--) a[l] = (rhs[l] - c[l]*a[l+1])/b[l];
BackStep(t, l) ==
  [t EXCEPT !.a[l] = QDiv(QSub(t.rhs[l], QMul(t.c[l], t.a[l + 1])), t.b[l])]

RECURSIVE BackFrom(_, _)
BackFrom(t, l) == IF l < 0 THEN t ELSE BackFrom(BackStep(t, l), l - 1)

\* a[nl-1] = rhs[nl-1]/b[nl-1]; then the downward loop; a holds the solution
ThomasBack(t, n) ==
  BackFrom([t EXCEPT !.a[n - 1] = QDiv(t.rhs[n - 1], t.b[n - 1])], n - 2)

\* s[0,0,l] = a[l]
Solution(t, n) == [l \in Layers(n) |-> t.a[l]]

(***************************************************************************)
(* The two assemblers as whole functions                                   *)
(***************************************************************************)
AssembleNN(hc, sc, n, D, dt, dst, dsb) ==
  LET t1 == InteriorRows(RhsInit(TriNew(n), hc, sc, n), hc, n, D, dt)
      t2 == NN_BottomRow(NN_TopRow(t1, hc, n, D, dt, dst), hc, D, dt, dsb)
  IN  IF n = 1 THEN SingleLayer(t2, hc, D, dt, dst) ELSE t2

AssembleNV(hc, sc, n, D, dt, dst, s_b, lambda_b) ==
  LET t1 == InteriorRows(RhsInit(TriNew(n), hc, sc, n), hc, n, D, dt)
      t2 == NV_BottomRow(NV_TopRow(t1, hc, n, D, dt, dst), hc, D, dt, s_b, lambda_b)
  IN  IF n = 1 THEN SingleLayer(t2, hc, D, dt, dst) ELSE t2

vertical_diffusion_NeumanNeuman(hc, sc, n, D, dt, dst, dsb) ==
  Solution(ThomasBack(ThomasForward(AssembleNN(hc, sc, n, D, dt, dst, dsb), n), n), n)

vertical_diffusion_NeumanNavier(hc, sc, n, D, dt, dst, s_b, lambda_b) ==
  Solution(ThomasBack(ThomasForward(
             AssembleNV(hc, sc, n, D, dt, dst, s_b, lambda_b), n), n), n)

(***************************************************************************)
(* The layer indices each part of the assemblers and of the solver uses    *)
(***************************************************************************)
Idx(arrs, ls) == arrs \X ls

AssembleIdx(n) ==
  Idx({"h", "s", "rhs"}, Layers(n))
    \cup UNION {Idx({"h"}, {l - 1, l, l + 1}) \cup Idx({"a", "b", "c"}, {l}) : l \in 1 .. n - 2}

TopIdx(variant, n) ==
  Idx({"a", "b", "rhs"}, {n - 1})
    \cup Idx({"h"}, IF variant = "NeumanNeuman" THEN {n - 2, n - 1} ELSE {n - 1})

BottomIdx == Idx({"h"}, {0, 1}) \cup Idx({"b", "c", "rhs"}, {0})

SingleIdx == Idx({"h", "b", "c", "rhs"}, {0})

ForwardIdx(n) ==
  UNION {Idx({"a", "b", "rhs"}, {l}) \cup Idx({"b", "c", "rhs"}, {l - 1}) : l \in 1 .. n - 1}

BackIdx(n) ==
  Idx({"a", "b", "rhs", "s"}, {n - 1})
    \cup UNION {Idx({"a", "b", "c", "rhs", "s"}, {l}) \cup Idx({"a"}, {l + 1}) : l \in 0 .. n - 2}

(***************************************************************************)
(* One call of vertical_diffusion_NeumanNeuman or _NeumanNavier on column  *)
(* call.point, step by step                                                *)
(***************************************************************************)
P == call.point

VD_Assemble ==
  /\ pc = "assemble"
  /\ tri' = InteriorRows(RhsInit(tri, h[P], u[P], nl), h[P], nl, call.D, call.dt)
  /\ acc' = acc \cup AssembleIdx(nl)
  /\ pc' = "top"
  /\ UNCHANGED <<nl, h, u, call, tri0, sIn, tsvars, hdvars, stvars>>

VD_Top ==
  /\ pc = "top"
  /\ tri' = IF call.variant = "NeumanNeuman"
            THEN NN_TopRow(tri, h[P], nl, call.D, call.dt, call.dst)
            ELSE NV_TopRow(tri, h[P], nl, call.D, call.dt, call.dst)
  /\ acc' = acc \cup TopIdx(call.variant, nl)
  /\ pc' = "bottom"
  /\ UNCHANGED <<nl, h, u, call, tri0, sIn, tsvars, hdvars, stvars>>

VD_Bottom ==
  /\ pc = "bottom"
  /\ tri' = IF call.variant = "NeumanNeuman"
            THEN NN_BottomRow(tri, h[P], call.D, call.dt, call.dsb)
            ELSE NV_BottomRow(tri, h[P], call.D, call.dt, call.s_b, call.lambda_b)
  /\ acc' = acc \cup BottomIdx
  /\ tri0' = IF nl = 1 THEN tri0 ELSE tri'
  /\ pc' = IF nl = 1 THEN "single" ELSE "forward"
  /\ UNCHANGED <<nl, h, u, call, sIn, tsvars, hdvars, stvars>>

VD_Single ==
  /\ pc = "single"
  /\ tri' = SingleLayer(tri, h[P], call.D, call.dt, call.dst)
  /\ acc' = acc \cup SingleIdx
  /\ tri0' = tri'
  /\ pc' = "forward"
  /\ UNCHANGED <<nl, h, u, call, sIn, tsvars, hdvars, stvars>>

VD_Forward ==
  /\ pc = "forward"
  /\ tri' = ThomasForward(tri, nl)
  /\ acc' = acc \cup ForwardIdx(nl)
  /\ pc' = "back"
  /\ UNCHANGED <<nl, h, u, call, tri0, sIn, tsvars, hdvars, stvars>>

VD_Back ==
  /\ pc = "back"
  /\ tri' = ThomasBack(tri, nl)
  /\ u' = [u EXCEPT ![P] = Solution(tri', nl)]
  /\ acc' = acc \cup BackIdx(nl)
  /\ pc' = "done"
  /\ UNCHANGED <<nl, h, call, tri0, sIn, tsvars, hdvars, stvars>>

(***************************************************************************)
(* The tangential-stress fields where no event of the grid runs            *)
(***************************************************************************)
Idle == "idle"

IdleTS ==
  /\ w = Idle /\ eta = Idle /\ Delta = One /\ visc_activate = FALSE
  /\ du_nu = Idle /\ dut = "dut0" /\ iter = 0 /\ maxdiff = One
  /\ order = <<>> /\ nvis = 0 /\ prev = Idle /\ nupd = 0

IdleHD ==
  /\ hd = Idle /\ d2s = Idle /\ d2sz = Idle /\ zl = Idle /\ zb = Idle
  /\ hl = 0 /\ layout = Idle /\ dry = Idle

IdleStep ==
  /\ nu = Zero /\ h_diffusion = FALSE /\ dtv = One /\ ha = Idle /\ hf = Idle
  /\ step = 0 /\ ev = 0 /\ col = 0 /\ u0 = Idle /\ du_old = Idle /\ log = <<>>

(***************************************************************************)
(* Inputs of one call                                                      *)
(***************************************************************************)
Variants == {"NeumanNeuman", "NeumanNavier"}
HeightVals == {One, Two}
\* what a read next to the layers of a one-layer column may return
StrayVals == {Zero, One, Two}
ScalarVals == {Zero, One}
DtVals == {One, Two}
DVals == {Zero, One}
FluxVals == {Zero, One}
SlipVals == {Zero, One}

ColumnHeights(n) ==
  {hc \in [(-1) .. n -> StrayVals] :
     /\ \A l \in Layers(n) : hc[l] \in HeightVals
     /\ n > 1 => hc[-1] = Zero /\ hc[n] = Zero}

Calls ==
  {cl \in [variant : Variants, point : {0}, D : DVals, dt : DtVals, dst : FluxVals,
            dsb : FluxVals, s_b : FluxVals, lambda_b : SlipVals] :
     /\ cl.variant = "NeumanNeuman" => cl.s_b = Zero /\ cl.lambda_b = Zero
     /\ cl.variant = "NeumanNavier" => cl.dsb = Zero}

InitVD ==
  /\ nl \in 1 .. MaxNl
  /\ h \in [{0} -> ColumnHeights(nl)]
  /\ u \in [{0} -> [Layers(nl) -> ScalarVals]]
  /\ sIn = u
  /\ call \in Calls
  /\ tri = TriNew(nl)
  /\ tri0 = TriNew(nl)
  /\ acc = {}
  /\ pc = "assemble"
  /\ IdleTS /\ IdleHD /\ IdleStep

NextVD == VD_Assemble \/ VD_Top \/ VD_Bottom \/ VD_Single \/ VD_Forward \/ VD_Back

SpecVD == InitVD /\ [][NextVD]_vars

(***************************************************************************)
(* The Thomas solver on its own: any strictly diagonally dominant system   *)
(***************************************************************************)
QAbs(x) == <<Abs(x[1]), x[2]>>

OffVals == {QI(-1), Zero, Q(1, 2)}
RhsVals == {Zero, One}
SignVals == {QI(-1), One}

\* |b[l]| = |a[l]| + |c[l]| + 1, with a[0] and c[n-1] outside the matrix
Systems(n) ==
  {[a |-> [l \in Layers(n) |-> IF l = 0 THEN Uninit ELSE lo[l]],
    c |-> [l \in Layers(n) |-> IF l = n - 1 THEN Uninit ELSE up[l]],
    b |-> [l \in Layers(n) |->
             QMul(sg, QAdd(One, QAdd(IF l = 0 THEN Zero ELSE QAbs(lo[l]),
                                     IF l = n - 1 THEN Zero ELSE QAbs(up[l]))))],
    rhs |-> r] :
     lo \in [1 .. n - 1 -> OffVals], up \in [0 .. n - 2 -> OffVals],
     sg \in SignVals, r \in [Layers(n) -> RhsVals]}

InitThomas ==
  /\ nl \in 1 .. MaxNl
  /\ tri \in Systems(nl)
  /\ tri0 = tri
  /\ h = [i \in {0} |-> [l \in (-1) .. nl |-> Zero]]
  /\ u = [i \in {0} |-> [l \in Layers(nl) |-> Zero]]
  /\ sIn = u
  /\ call = [point |-> 0]
  /\ acc = {}
  /\ pc = "forward"
  /\ IdleTS /\ IdleHD /\ IdleStep

NextThomas == VD_Forward \/ VD_Back

SpecThomas == InitThomas /\ [][NextThomas]_vars

(***************************************************************************)
(* Tangential stress continuity: event viscous_term of viscous_surface.h   *)
(***************************************************************************)
Cols == 0 .. NCol - 1
GridCols == (-1) .. NCol
TopL == nl - 1

\* etax=(eta[1]-eta[-1])/(2.*Delta), at column i
etaxAt(i) == QDiv(QSub(eta[i + 1], eta[i - 1]), QMul(Two, Delta))

\* etax/(1.-etax*etax)
Slope(i) == QDiv(etaxAt(i), QSub(One, sq(etaxAt(i))))

tstress_a(i) ==
  QAdd(QDiv(QMul(Q(1, 4), sq(h[i + 1][TopL])), sq(Delta)),
       QDiv(QMul(Slope(i), h[i + 1][TopL]), Delta))

tstress_b(i) == QDiv(QMul(QMul(Q(1, 4), h[i + 1][TopL]), h[i][TopL]), sq(Delta))

tstress_c(i) ==
  QSub(QDiv(QMul(QMul(Q(1, 4), h[i][TopL]), h[i - 1][TopL]), sq(Delta)),
       QDiv(QMul(Slope(i), h[i - 1][TopL]), Delta))

\* the value the loop body assigns to du_nu.x[] at column i, reading the field d
Stress(i, d) ==
  LET dw == QDiv(QSub(w[i + 1][TopL], w[i - 1][TopL]), QMul(Two, Delta))
      du == QDiv(QMul(QDiv(QMul(Four, QSub(u[i + 1][TopL], u[i - 1][TopL])),
                           QMul(Two, Delta)), etaxAt(i)),
                 QSub(One, QMul(etaxAt(i), etaxAt(i))))
      sh == QDiv(QAdd(QSub(QMul(h[i + 1][TopL], u[i + 1][TopL]),
                           QMul(QAdd(h[i + 1][TopL], h[i][TopL]), u[i][TopL])),
                      QMul(h[i][TopL], u[i - 1][TopL])),
                 QMul(Two, sq(Delta)))
  IN  QSub(QAdd(QAdd(QAdd(QAdd(QNeg(dw), du), sh), QMul(tstress_a(i), d[i + 1])),
                QMul(tstress_c(i), d[i - 1])),
           QMul(tstress_b(i), d[i]))

\* boundary ((scalar *){du_nu}): the ghost columns, by the default condition of
\* the component normal to the boundary (antisymmetry)
Boundary(d) == [d EXCEPT ![-1] = QNeg(d[0]), ![NCol] = QNeg(d[NCol - 1])]

\* a loop that also stops once a pass has left maxdiff at 0
LoopCondConverged(it, md) == it < NIter /\ (it = 0 \/ md # Zero)

\* while(iter<10)
LoopCond(it, md) == it < NIter

TS_Begin ==
  /\ pc = "ts_begin"
  /\ IF visc_activate
     THEN /\ maxdiff' = One
          /\ iter' = 0
          /\ du_nu' = [i \in GridCols |-> IF i \in Cols THEN Zero ELSE du_nu[i]]
          /\ pc' = "ts_while"
     ELSE /\ pc' = "ts_done"
          /\ UNCHANGED <<maxdiff, iter, du_nu>>
  /\ nupd' = 0
  /\ UNCHANGED <<hdvars, stvars, vdvars_but_pc, w, eta, Delta, visc_activate, dut, order, nvis, prev>>

TS_While ==
  /\ pc = "ts_while"
  /\ IF LoopCond(iter, maxdiff)
     THEN /\ maxdiff' = Zero
          /\ nvis' = 0
          /\ prev' = du_nu
          /\ pc' = "ts_foreach"
     ELSE /\ pc' = "ts_finish"
          /\ UNCHANGED <<maxdiff, nvis, prev>>
  /\ UNCHANGED <<hdvars, stvars, vdvars_but_pc, w, eta, Delta, visc_activate, du_nu, dut, iter, order, nupd>>

TS_Column ==
  /\ pc = "ts_foreach"
  /\ nvis < NCol
  /\ du_nu' = [du_nu EXCEPT ![order[nvis + 1]] = Stress(order[nvis + 1], du_nu)]
  /\ nvis' = nvis + 1
  /\ nupd' = nupd + 1
  /\ UNCHANGED <<hdvars, stvars, vdvars, w, eta, Delta, visc_activate, dut, iter, maxdiff, order, prev>>

TS_IterInc ==
  /\ pc = "ts_foreach"
  /\ nvis = NCol
  /\ iter' = iter + 1
  /\ pc' = "ts_while"
  /\ UNCHANGED <<hdvars, stvars, vdvars_but_pc, w, eta, Delta, visc_activate, du_nu, dut, maxdiff, order,
                 nvis, prev, nupd>>

\* an event that ends without making du_nu the top flux
TS_FinishNoAssign ==
  /\ pc = "ts_finish"
  /\ du_nu' = Boundary(du_nu)
  /\ pc' = "ts_done"
  /\ UNCHANGED <<hdvars, stvars, vdvars_but_pc, w, eta, Delta, visc_activate, dut, iter,
                 maxdiff, order, nvis, prev, nupd>>

TS_Finish ==
  /\ pc = "ts_finish"
  /\ du_nu' = Boundary(du_nu)
  /\ dut' = "du_nu"
  /\ pc' = "ts_done"
  /\ UNCHANGED <<hdvars, stvars, vdvars_but_pc, w, eta, Delta, visc_activate, iter, maxdiff, order, nvis,
                 prev, nupd>>

(***************************************************************************)
(* Inputs of the relaxation: fields on the grid                            *)
(***************************************************************************)
RECURSIVE Perms(_)
Perms(S) ==
  IF S = {} THEN {<<>>}
  ELSE UNION {{<<x>> \o q : q \in Perms(S \ {x})} : x \in S}

Serial == [j \in 1 .. NCol |-> j - 1]

Field(f(_, _), n) == [i \in GridCols |-> [l \in Layers(n) |-> QI(f(i, l))]]
HField(f(_, _), n) ==
  [i \in GridCols |-> [l \in (-1) .. n |-> IF l \in Layers(n) THEN QI(f(i, l)) ELSE Zero]]
Row(f(_)) == [i \in GridCols |-> f(i)]

fZero(i, l) == 0
fTwo(i, l) == 2
fShear(i, l) == i + l
fGap(i, l) == IF i = 1 THEN 0 ELSE 2
fBump(i, l) == IF i = 1 THEN 2 ELSE 0
fSquare(i, l) == 2 * i * i
rFlat(i) == Zero
rZigzag(i) == QI(i % 2)
rRamp(i) == Q(i, 2)
rOld(i) == IF i = -1 THEN QI(-1) ELSE IF i = NCol THEN QI(-NCol) ELSE QI(i + 1)

\* the inputs keep the ten passes within exact arithmetic: a sloping free
\* surface (rRamp) comes with fields at rest and du_nu = 0 only
TSInputs(n) ==
  {in \in [h : {HField(fTwo, n), HField(fGap, n)},
            u : {Field(fZero, n), Field(fShear, n), Field(fBump, n)},
            w : {Field(fZero, n), Field(fSquare, n)},
            eta : {Row(rFlat), Row(rZigzag), Row(rRamp)}] :
     in.eta = Row(rRamp) => in.u = Field(fZero, n) /\ in.w = Field(fZero, n)}

IdleVD ==
  /\ call = [point |-> 0]
  /\ tri = TriNew(nl)
  /\ tri0 = TriNew(nl)
  /\ sIn = u
  /\ acc = {}

InitTS ==
  /\ nl = GridNl
  /\ \E in \in TSInputs(nl) : h = in.h /\ u = in.u /\ w = in.w /\ eta = in.eta
  /\ Delta = One
  /\ visc_activate \in BOOLEAN
  /\ \/ du_nu = Row(rFlat) /\ dut = "dut0"
     \/ du_nu = Row(rOld) /\ dut = "du_nu" /\ eta # Row(rRamp)
  /\ iter = 0 /\ maxdiff = One /\ nvis = 0 /\ nupd = 0
  /\ order \in Perms(Cols)
  /\ prev = du_nu
  /\ IdleVD /\ IdleHD /\ IdleStep
  /\ pc = "ts_begin"

NextTS == TS_Begin \/ TS_While \/ TS_Column \/ TS_IterInc \/ TS_Finish

SpecTS == InitTS /\ [][NextTS]_vars

(***************************************************************************)
(* horizontal_diffusion (scalar s, double D, double dt, scalar dst), with  *)
(* s the layered field u                                                   *)
(***************************************************************************)
\* The fields d2s and d2sz are declared scalar d2s[], scalar d2sz[] and are
\* indexed by layer.  Either their storage has a single layer, and every layer
\* index falls on it, or it has one slot per layer.
Layouts == {"single", "block"}
Slot(l) == IF layout = "block" THEN l ELSE 0

\* a field declared and not yet written
Fresh == [sl \in Layers(nl) |-> [i \in Cols |-> Uninit]]

\* ghost columns of a scalar field: the default (symmetry) condition
Symmetry(z) == [z EXCEPT ![-1] = z[0], ![NCol] = z[NCol - 1]]

\* a += (s[-1] -2.*s[] + s[1]);  in layer l of column i
Laplacian(s, i, l) == QAdd(QSub(s[i - 1][l], QMul(Two, s[i][l])), s[i + 1][l])

\* (f[1,0] - f[-1,0]) and (f[1,0] - 2.*f[0,0] + f[-1,0]) of a row f
Diff1(f, i) == QSub(f[i + 1], f[i - 1])
Diff2(f, i) == QAdd(QSub(f[i + 1], QMul(Two, f[i])), f[i - 1])

\* the layer l of a layered field, as a row
LayerRow(f, l) == [i \in GridCols |-> f[i][l]]

\* double b of the d2sz loop, in layer l of column i
SlopeTerm(s, dst, i, l) ==
  LET hr == LayerRow(h, l)
  IN
  IF l < nl - 1
  THEN LET b1 == QDiv(QMul(QAdd(QSub(QSub(s[i + 1][l], s[i - 1][l]), s[i + 1][l + 1]),
                                s[i - 1][l + 1]), Diff1(hr, i)), Four)
           b2 == QDiv(QMul(QSub(s[i][l], s[i][l + 1]), Diff2(hr, i)), Two)
           b3 == QDiv(QMul(QAdd(QSub(QSub(s[i + 1][l + 1], s[i - 1][l + 1]),
                                     s[i + 1][l - 1]), s[i - 1][l - 1]),
                           Diff1(zl, i)), Four)
           b4 == QDiv(QMul(QSub(s[i][l + 1], s[i][l - 1]), Diff2(zl, i)), Two)
       IN  IF l > 0 THEN QSub(QSub(QAdd(b1, b2), b3), b4) ELSE QAdd(b1, b2)
  ELSE LET fr == QMul(dst[i + 1], h[i + 1][l])
           fl == QMul(dst[i - 1], h[i - 1][l])
           b1 == QDiv(QMul(QAdd(QNeg(fr), fl), Diff1(hr, i)), Four)
           b2 == QDiv(QMul(QNeg(QMul(dst[i], h[i][l])), Diff2(hr, i)), Two)
           b3 == QDiv(QMul(QAdd(QSub(QSub(QSub(QAdd(s[i + 1][l], fr), s[i - 1][l]), fl),
                                     s[i + 1][l - 1]), s[i - 1][l - 1]),
                           Diff1(zl, i)), Four)
           b4 == QDiv(QMul(QSub(QAdd(s[i][l], fr), s[i][l - 1]), Diff2(zl, i)), Two)
       IN  IF l > 0 THEN QSub(QSub(QAdd(b1, b2), b3), b4) ELSE QAdd(b1, b2)

\* if (D > 0.) { scalar d2s[]; ...
HD_Begin ==
  /\ pc = "hd_begin"
  /\ IF QLt(Zero, hd.D)
     THEN /\ d2s' = Fresh /\ d2sz' = Fresh
          /\ zl' = [i \in GridCols |-> Uninit]
          /\ pc' = "hd_d2s"
     ELSE /\ pc' = "hd_done"
          /\ UNCHANGED <<d2s, d2sz, zl>>
  /\ hl' = 0
  /\ UNCHANGED <<hd, zb, layout, dry, nl, h, u, call, tri, tri0, sIn, acc, tsvars, stvars>>

\* one layer of: foreach_layer() foreach() { double a = 0.; ...; d2s[] = a/(sq(Delta)); }
HD_D2s ==
  /\ pc = "hd_d2s"
  /\ d2s' = [d2s EXCEPT ![Slot(hl)] =
               [i \in Cols |-> QDiv(Laplacian(u, i, hl), sq(Delta))]]
  /\ hl' = hl + 1
  /\ pc' = IF hl + 1 < nl THEN "hd_d2s" ELSE "hd_zl"
  /\ UNCHANGED <<hd, d2sz, zl, zb, layout, dry, nl, h, u, call, tri, tri0, sIn, acc,
                 tsvars, stvars>>

\* scalar zl[]; foreach() zl[]=zb[];
HD_Zl ==
  /\ pc = "hd_zl"
  /\ zl' = Symmetry([i \in GridCols |-> zb[i]])
  /\ hl' = 0
  /\ pc' = "hd_d2sz"
  /\ UNCHANGED <<hd, d2s, d2sz, zb, layout, dry, nl, h, u, call, tri, tri0, sIn, acc,
                 tsvars, stvars>>

\* one iteration of: for (int l = 0; l < nl; l++) { foreach() {...} foreach() zl[]+=h[0,0,l]; }
HD_D2sz ==
  /\ pc = "hd_d2sz"
  /\ d2sz' = [d2sz EXCEPT ![Slot(hl)] =
                [i \in Cols |-> QDiv(SlopeTerm(u, hd.dst, i, hl), sq(Delta))]]
  /\ zl' = Symmetry([i \in GridCols |-> QAdd(zl[i], h[i][hl])])
  /\ hl' = hl + 1
  /\ pc' = IF hl + 1 < nl THEN "hd_d2sz" ELSE "hd_bulk"
  /\ UNCHANGED <<hd, d2s, zb, layout, dry, nl, h, u, call, tri, tri0, sIn, acc,
                 tsvars, stvars>>

\* foreach_layer() foreach() if (h[] > dry) s[] += dt*D*d2s[];
HD_Bulk ==
  /\ pc = "hd_bulk"
  /\ u' = [i \in GridCols |-> [l \in Layers(nl) |->
             IF i \in Cols /\ QLt(dry, h[i][l])
             THEN QAdd(u[i][l], QMul(QMul(hd.dt, hd.D), d2s[Slot(l)][i]))
             ELSE u[i][l]]]
  /\ pc' = "hd_layer"
  /\ UNCHANGED <<hdvars, nl, h, call, tri, tri0, sIn, acc, tsvars, stvars>>

\* for (int l = 0; l < nl; l++) foreach() if (h[0,0,l] > dry) s[0,0,l] += dt*D*d2sz[0,0,l]/h[0,0,l];
HD_Layer ==
  /\ pc = "hd_layer"
  /\ u' = [i \in GridCols |-> [l \in Layers(nl) |->
             IF i \in Cols /\ QLt(dry, h[i][l])
             THEN QAdd(u[i][l],
                       QDiv(QMul(QMul(hd.dt, hd.D), d2sz[Slot(l)][i]), h[i][l]))
             ELSE u[i][l]]]
  /\ pc' = "hd_done"
  /\ UNCHANGED <<hdvars, nl, h, call, tri, tri0, sIn, acc, tsvars, stvars>>

fStep(i, l) == IF i = 1 THEN 1 ELSE 2
fLow(i, l) == IF i = 1 /\ l = 0 THEN 2 ELSE 0
rSlope(i) == QI(i)

DryVals == {Q(1, 2), One}

HDArgs == [D : {Zero, One}, dt : {One, Two}, dst : {Row(rFlat), Row(rZigzag)}]

InitHD ==
  /\ nl = GridNl
  /\ h \in {HField(fTwo, nl), HField(fGap, nl), HField(fStep, nl)}
  /\ u \in {Field(fShear, nl), Field(fBump, nl), Field(fLow, nl)}
  /\ zb \in {Row(rFlat), Row(rSlope)}
  /\ Delta \in {One, Two}
  /\ hd \in HDArgs
  /\ dry \in DryVals
  /\ layout \in Layouts
  /\ d2s = Idle /\ d2sz = Idle /\ zl = Idle /\ hl = 0
  /\ w = Idle /\ eta = Idle /\ visc_activate = FALSE
  /\ du_nu = Idle /\ dut = "dut0" /\ iter = 0 /\ maxdiff = One
  /\ order = <<>> /\ nvis = 0 /\ prev = Idle /\ nupd = 0
  /\ IdleVD /\ IdleStep
  /\ pc = "hd_begin"

NextHD == HD_Begin \/ HD_D2s \/ HD_Zl \/ HD_D2sz \/ HD_Bulk \/ HD_Layer

SpecHD == InitHD /\ [][NextHD]_vars

(***************************************************************************)
(* event viscous_term (i++,last) of cap_diffusion.h                        *)
(***************************************************************************)
\* (const) vector lambda_b = lambda0, dut = dut0, u_b = u_b0, dub = dub0:
\* dut0, u_b0 and dub0 are the constant field {0,0,0}; dut is the only handle
\* an event assigns
DutAt(i) == IF dut = "du_nu" THEN du_nu[i] ELSE Zero
u_bAt(i) == Zero
dubAt(i) == Zero

\* dt*(ha.x[] + ha.x[1])/(hf.x[] + hf.x[1] + dry)
AccelTerm(i, l) ==
  QDiv(QMul(dtv, QAdd(ha[i][l], ha[i + 1][l])),
       QAdd(QAdd(hf[i][l], hf[i + 1][l]), dry))

\* the column the foreach() of the orchestrator is at
Here == order[col + 1]

Entry(op, c) == [op |-> op, col |-> c]

\* if (nu > 0.) {
VT_Begin ==
  /\ pc = "vt_begin"
  /\ pc' = IF QLt(Zero, nu) THEN "vt_accel" ELSE "vt_done"
  /\ col' = 0
  /\ u0' = u
  /\ log' = <<>>
  /\ UNCHANGED <<nu, h_diffusion, dtv, ha, hf, step, ev, du_old, vdvars_but_pc, tsvars,
                 hdvars>>

\* foreach_layer() foreach_dimension() u.x[] += dt*(...)/(...);  in one column
VT_AccelAdd ==
  /\ pc = "vt_accel"
  /\ u' = [u EXCEPT ![Here] = [l \in Layers(nl) |-> QAdd(u[Here][l], AccelTerm(Here, l))]]
  /\ log' = Append(log, Entry("add", Here))
  /\ pc' = "vt_call"
  /\ UNCHANGED <<nu, h_diffusion, dtv, ha, hf, step, ev, col, u0, du_old,
                 nl, h, call, tri, tri0, sIn, acc, tsvars, hdvars>>

\* vertical_diffusion_NeumanNavier (point, h, u.x, dt, nu, dut.x[], u_b.x[], dub.x[]);
VT_Solve ==
  /\ pc = "vt_call"
  /\ call' = [variant |-> "NeumanNavier", point |-> Here, D |-> nu, dt |-> dtv,
              dst |-> DutAt(Here), dsb |-> Zero, s_b |-> u_bAt(Here),
              lambda_b |-> dubAt(Here)]
  /\ tri' = TriNew(nl)
  /\ tri0' = TriNew(nl)
  /\ sIn' = u
  /\ acc' = {}
  /\ log' = Append(log, Entry("solve", Here))
  /\ pc' = "assemble"
  /\ UNCHANGED <<nu, h_diffusion, dtv, ha, hf, step, ev, col, u0, du_old,
                 nl, h, u, tsvars, hdvars>>

\* the next column of the foreach(), or what follows it
VT_NextColumn ==
  /\ pc = "done"
  /\ col' = col + 1
  /\ pc' = IF col + 1 < NCol THEN "vt_accel"
           ELSE IF h_diffusion THEN "vt_hd" ELSE "vt_sub"
  /\ UNCHANGED <<nu, h_diffusion, dtv, ha, hf, step, ev, u0, du_old, log,
                 vdvars_but_pc, tsvars, hdvars>>

\* if (h_diffusion){ vector dup[]; foreach() dup.x[]=dut.x[]; horizontal_diffusion (u.x, nu, dt, dup.x); }
VT_Horizontal ==
  /\ pc = "vt_hd"
  /\ hd' = [D |-> nu, dt |-> dtv, dst |-> Boundary([i \in GridCols |-> DutAt(i)])]
  /\ sIn' = u
  /\ log' = Append(log, Entry("horizontal", "all"))
  /\ pc' = "hd_begin"
  /\ UNCHANGED <<nu, h_diffusion, dtv, ha, hf, step, ev, col, u0, du_old,
                 nl, h, u, call, tri, tri0, acc, tsvars,
                 d2s, d2sz, zl, zb, hl, layout, dry>>

VT_HorizontalDone ==
  /\ pc = "hd_done"
  /\ pc' = "vt_sub"
  /\ UNCHANGED <<stvars, vdvars_but_pc, tsvars, hdvars>>

\* a last loop that applies the acceleration once more
VT_AccelSubAsAdd ==
  /\ pc = "vt_sub"
  /\ u' = [i \in GridCols |-> [l \in Layers(nl) |->
             IF i \in Cols THEN QAdd(u[i][l], AccelTerm(i, l)) ELSE u[i][l]]]
  /\ log' = Append(log, Entry("sub", "all"))
  /\ pc' = "vt_done"
  /\ UNCHANGED <<nu, h_diffusion, dtv, ha, hf, step, ev, col, u0, du_old,
                 nl, h, call, tri, tri0, sIn, acc, tsvars, hdvars>>

\* foreach() { foreach_layer() foreach_dimension() u.x[] -= dt*(...)/(...); }
VT_AccelSub ==
  /\ pc = "vt_sub"
  /\ u' = [i \in GridCols |-> [l \in Layers(nl) |->
             IF i \in Cols THEN QSub(u[i][l], AccelTerm(i, l)) ELSE u[i][l]]]
  /\ log' = Append(log, Entry("sub", "all"))
  /\ pc' = "vt_done"
  /\ UNCHANGED <<nu, h_diffusion, dtv, ha, hf, step, ev, col, u0, du_old,
                 nl, h, call, tri, tri0, sIn, acc, tsvars, hdvars>>

(***************************************************************************)
(* The timestep: the events named viscous_term, in the order they run      *)
(***************************************************************************)
\* the event of viscous_surface.h (i++) runs before the one of
\* cap_diffusion.h (i++,last)
Schedule == <<"tangential", "orchestrator">>

ST_Dispatch ==
  /\ pc = "sched"
  /\ ev <= Len(Schedule)
  /\ pc' = IF Schedule[ev] = "tangential" THEN "ts_begin" ELSE "vt_begin"
  /\ UNCHANGED <<stvars, vdvars_but_pc, tsvars, hdvars>>

ST_Return ==
  /\ pc \in {"ts_done", "vt_done"}
  /\ ev' = ev + 1
  /\ pc' = "sched"
  /\ UNCHANGED <<nu, h_diffusion, dtv, ha, hf, step, col, u0, du_old, log,
                 vdvars_but_pc, tsvars, hdvars>>

\* the fields the rest of the solver hands to the events of a timestep
StepFields(n) ==
  {[u |-> Field(fBump, n), w |-> Field(fZero, n)],
   [u |-> Field(fShear, n), w |-> Field(fSquare, n)],
   [u |-> Field(fZero, n), w |-> Field(fZero, n)]}

\* the rest of the timestep (advection, acceleration, pressure) and the start
\* of the next one
ST_Advance ==
  /\ pc = "sched"
  /\ ev > Len(Schedule)
  /\ step < MaxStep
  /\ step' = step + 1
  /\ ev' = 1
  /\ \E in \in StepFields(nl) : u' = in.u /\ w' = in.w
  /\ du_old' = du_nu
  /\ nupd' = 0
  /\ UNCHANGED <<nu, h_diffusion, dtv, ha, hf, col, u0, log, hdvars,
                 nl, h, call, tri, tri0, sIn, acc, pc,
                 eta, Delta, visc_activate, du_nu, dut, iter, maxdiff, order, nvis, prev>>

InitStep ==
  /\ nl = GridNl
  /\ h = HField(fTwo, nl)
  /\ \E in \in StepFields(nl) : u = in.u /\ w = in.w
  /\ eta = Row(rFlat)
  /\ Delta = One
  /\ visc_activate \in BOOLEAN
  /\ du_nu = Row(rFlat) /\ dut = "dut0"
  /\ iter = 0 /\ maxdiff = One /\ nvis = 0 /\ nupd = 0
  /\ order \in {Serial, [j \in 1 .. NCol |-> NCol - j]}
  /\ prev = du_nu
  /\ IdleVD
  /\ hd = Idle /\ d2s = Idle /\ d2sz = Idle /\ zl = Idle /\ hl = 0
  /\ zb = Row(rFlat)
  /\ layout \in Layouts
  /\ dry = Q(1, 2)
  /\ nu \in {Zero, One}
  /\ h_diffusion \in BOOLEAN
  /\ dtv = One
  /\ ha = Field(fShear, nl)
  /\ hf = Field(fTwo, nl)
  /\ step = 1 /\ ev = 1 /\ col = 0
  /\ u0 = u /\ du_old = du_nu /\ log = <<>>
  /\ pc = "sched"

NextStep ==
  \/ ST_Dispatch \/ ST_Return \/ ST_Advance
  \/ TS_Begin \/ TS_While \/ TS_Column \/ TS_IterInc \/ TS_Finish
  \/ VT_Begin \/ VT_AccelAdd \/ VT_Solve \/ VT_NextColumn
  \/ VD_Assemble \/ VD_Top \/ VD_Bottom \/ VD_Forward \/ VD_Back
  \/ VT_Horizontal \/ HD_Begin \/ HD_D2s \/ HD_Zl \/ HD_D2sz \/ HD_Bulk \/ HD_Layer
  \/ VT_HorizontalDone \/ VT_AccelSub

SpecStep == InitStep /\ [][NextStep]_vars

(***************************************************************************)
(* Properties of the relaxation                                            *)
(***************************************************************************)
\* one pass that reads a snapshot d of the whole field
SnapshotPass(d) == [i \in GridCols |-> IF i \in Cols THEN Stress(i, d) ELSE d[i]]

RECURSIVE SnapshotPasses(_, _)
SnapshotPasses(d, n) == IF n = 0 THEN d ELSE SnapshotPasses(SnapshotPass(d), n - 1)

\* one pass of the loop body over the columns in the order ord, from column j on
RECURSIVE InPlacePass(_, _, _)
InPlacePass(d, ord, j) ==
  IF j > NCol THEN d
  ELSE InPlacePass([d EXCEPT ![ord[j]] = Stress(ord[j], d)], ord, j + 1)

RECURSIVE InPlacePasses(_, _, _)
InPlacePasses(d, ord, n) ==
  IF n = 0 THEN d ELSE InPlacePasses(InPlacePass(d, ord, 1), ord, n - 1)

Zeroed(d) == [i \in GridCols |-> IF i \in Cols THEN Zero ELSE d[i]]

\* C2, first part: in every pass, the value written to a column is computed from
\* the du_nu of the previous pass only.
C2_ReadsPreviousPass ==
  pc = "ts_foreach" => \A j \in 1 .. nvis : du_nu[order[j]] = Stress(order[j], prev)

\* C2, second part: the du_nu after the 10 passes is the same for every order of
\* visit (the one the serial order yields).
C2_OrderIndependent ==
  pc = "ts_finish" => du_nu = InPlacePasses(Zeroed(du_nu), Serial, NIter)

\* C2 as stated: each column's new du_nu is computed from previous-pass values
\* only, never from a value written in the current pass, and so the result of
\* the 10 passes does not depend on the order in which the columns are visited.
C2_Original == C2_ReadsPreviousPass /\ C2_OrderIndependent

\* an upper bound of the number of steps the event has left
StepsLeft ==
  CASE pc = "ts_done" -> 0
    [] pc = "ts_finish" -> 1
    [] pc = "ts_while" -> 2 + (NIter - iter) * (NCol + 2)
    [] pc = "ts_foreach" -> 1 + (NIter - iter) * (NCol + 2) - nvis
    [] pc = "ts_begin" -> 3 + NIter * (NCol + 2)

\* C8: with visc_activate the relaxation zeroes du_nu in every column before
\* the first pass, makes exactly 10 passes over all columns whatever the fields
\* are, makes du_nu the top flux dut only after the tenth pass, and terminates
\* (until it is done the guard of one of its steps holds, and every step uses
\* up a bounded count); without visc_activate neither du_nu nor dut changes.
C8_TenPasses ==
  /\ []((visc_activate /\ pc = "ts_while" /\ nupd = 0)
          => \A i \in Cols : du_nu[i] = Zero)
  /\ []((visc_activate /\ pc \in {"ts_finish", "ts_done"})
          => nupd = NIter * NCol /\ iter = NIter)
  /\ [][dut' # dut => (pc = "ts_finish" /\ nupd = NIter * NCol /\ dut' = "du_nu")]_vars
  /\ []((visc_activate /\ pc = "ts_done") => dut = "du_nu")
  /\ [][~visc_activate => (du_nu' = du_nu /\ dut' = dut)]_vars
  /\ [](pc \in {"ts_begin", "ts_while", "ts_finish", "ts_done"}
          \/ (pc = "ts_foreach" /\ nvis <= NCol))
  /\ []((StepsLeft = 0) <=> (pc = "ts_done"))
  /\ [](StepsLeft >= 0)
  /\ [][StepsLeft' < StepsLeft]_vars

C8_Witness ==
  /\ pc = "ts_done" /\ visc_activate
  /\ nupd = NIter * NCol /\ iter = NIter
  /\ dut = "du_nu"
  /\ \E i \in Cols : du_nu[i] # Zero

(***************************************************************************)
(* Properties of the vertical diffusion                                    *)
(***************************************************************************)
DepthSum(hc, sc, n) == QSum([l \in Layers(n) |-> QMul(hc[l], sc[l])], 0, n - 1)

Assembled == pc \in {"forward", "back", "done"}

ZeroFluxNN ==
  call.variant = "NeumanNeuman" /\ call.dst = Zero /\ call.dsb = Zero

ZeroFluxNV ==
  call.variant = "NeumanNavier" /\ call.dst = Zero /\ call.s_b = Zero

Conserved == DepthSum(h[P], u[P], nl) = DepthSum(h[P], sIn[P], nl)

ColumnExcess(t, hc, j, n) ==
  QSub(QAdd(QAdd(IF j > 0 THEN t.c[j - 1] ELSE Zero, t.b[j]),
            IF j < n - 1 THEN t.a[j + 1] ELSE Zero), hc[j])

\* what a call takes out of the depth-weighted sum
Leak == QSum([j \in Layers(nl) |-> QMul(ColumnExcess(tri0, h[P], j, nl), u[P][j])], 0, nl - 1)

MatRow(t, x, l, n) ==
  QAdd(QAdd(IF l > 0 THEN QMul(t.a[l], x[l - 1]) ELSE Zero, QMul(t.b[l], x[l])),
       IF l < n - 1 THEN QMul(t.c[l], x[l + 1]) ELSE Zero)

\* C3: the vector the forward elimination and back substitution produce solves
\* the system with its original coefficients: row l of M*s equals rhs[l], for
\* every strictly diagonally dominant system of size nl >= 1.
C3_RoundTrip ==
  pc = "done" => \A l \in Layers(nl) : MatRow(tri0, u[P], l, nl) = tri0.rhs[l]

C3_Witness ==
  /\ pc = "done" /\ nl = 3
  /\ tri0.a[1] # Zero /\ tri0.c[0] # Zero /\ tri0.a[2] # Zero /\ tri0.c[1] # Zero
  /\ \A l \in Layers(nl) : u[P][l] # Zero

\* the Neumann/Neumann assembly of the same column, with dsb = 0
RefNN == AssembleNN(h[P], sIn[P], nl, call.D, call.dt, call.dst, Zero)

NavierCase == Assembled /\ nl >= 2 /\ call.variant = "NeumanNavier"

\* C4 as stated: with lambda_b = 0 and s_b the value of zero bottom flux (the
\* bottom layer's own value, or 0), b[0], c[0] and rhs[0] of the Navier variant
\* equal those of the Neumann variant.
C4_Original ==
  (NavierCase /\ call.lambda_b = Zero /\ call.s_b \in {Zero, sIn[P][0]})
    => /\ tri0.b[0] = RefNN.b[0]
       /\ tri0.c[0] = RefNN.c[0]
       /\ tri0.rhs[0] = RefNN.rhs[0]

BottomP(h0, h1) == QAdd(QAdd(sq(h1), QMul(QMul(Three, h0), h1)), QMul(Three, sq(h0)))
BottomQ(h0, h1) == QAdd(QAdd(sq(h1), QMul(QMul(Three, h0), h1)), QMul(Two, sq(h0)))

\* C4 amended: for every lambda_b >= 0 the Navier bottom row exceeds the Neumann
\* one by 2*dt*D*(h1^2+3*h0*h1+3*h0^2)/den in b[0], by -2*dt*D*h0^2/den in c[0]
\* and by 2*dt*D*s_b*(h1^2+3*h0*h1+2*h0^2)/den in rhs[0]; so b[0] and c[0] match
\* only when D = 0 (also at lambda_b = 0), rhs[0] matches when s_b = 0, and the
\* excess is at most 2*dt*D*(...)/(2*lambda_b*(3*h0*h1+2*h0^2+h1^2)): the rows
\* agree as lambda_b grows without bound, not as lambda_b -> 0.
C4_NavierExcess ==
  NavierCase =>
    LET h0 == h[P][0]
        h1 == h[P][1]
        den == QAdd(QMul(h0, sq(QAdd(h0, h1))),
                    QMul(QMul(Two, call.lambda_b), BottomQ(h0, h1)))
        tdD == QMul(QMul(Two, call.dt), call.D)
        exb == QSub(tri0.b[0], RefNN.b[0])
        exc == QSub(RefNN.c[0], tri0.c[0])
        exr == QSub(tri0.rhs[0], RefNN.rhs[0])
    IN  /\ QMul(exb, den) = QMul(tdD, BottomP(h0, h1))
        /\ QMul(exc, den) = QMul(tdD, sq(h0))
        /\ QMul(exr, den) = QMul(QMul(tdD, call.s_b), BottomQ(h0, h1))
        /\ (exb = Zero) <=> (call.D = Zero)
        /\ (exc = Zero) <=> (call.D = Zero)
        /\ call.s_b = Zero => exr = Zero
        /\ QLe(QMul(exb, QMul(QMul(Two, call.lambda_b), BottomQ(h0, h1))),
               QMul(tdD, BottomP(h0, h1)))

C4_Witness ==
  /\ NavierCase /\ call.lambda_b = Zero /\ call.s_b = Zero /\ call.D = One
  /\ h[P][0] # h[P][1]
  /\ QLt(RefNN.b[0], tri0.b[0])
  /\ QLt(tri0.c[0], RefNN.c[0])

\* C5 as stated: both variants assemble the same interior rows and the same top
\* row a[nl-1] = -2*D*dt/(h[nl-2]+h[nl-1]), b[nl-1] = h[nl-1] - a[nl-1],
\* rhs[nl-1] = s[nl-1]*h[nl-1] + D*dt*dst (nl >= 2).
C5_Original ==
  (Assembled /\ nl >= 2) =>
    /\ \A l \in 1 .. nl - 2 :
         tri0.a[l] = RefNN.a[l] /\ tri0.b[l] = RefNN.b[l] /\ tri0.c[l] = RefNN.c[l]
    /\ tri0.a[nl - 1] = Coupling(call.D, call.dt, QAdd(h[P][nl - 2], h[P][nl - 1]))
    /\ tri0.b[nl - 1] = QSub(h[P][nl - 1], tri0.a[nl - 1])
    /\ tri0.rhs[nl - 1] = QAdd(QMul(sIn[P][nl - 1], h[P][nl - 1]),
                               QMul(QMul(call.D, call.dt), call.dst))

\* C10 as stated: every layer index at which the assemblers read h or s, or read
\* or write a, b, c, rhs, lies in [0, nl), for every nl >= 1.
C10_Original == \A e \in acc : e[2] \in Layers(nl)

(***************************************************************************)
(* Properties of the horizontal diffusion                                  *)
(***************************************************************************)
\* the horizontal Laplacian of the sum over the layers of the scalar on entry,
\* in column i, divided by Delta squared
DepthLaplacian(i) ==
  QDiv(QSum([l \in Layers(nl) |-> Laplacian(sIn, i, l)], 0, nl - 1), sq(Delta))

\* C9 as stated: with D > 0 the bulk term added (times dt*D) to a layer is the
\* Laplacian of the depth-integrated scalar on entry, it is added only to the
\* layers with h > dry, and with D <= 0 every layer keeps its value.
C9_Original ==
  /\ pc = "hd_layer" =>
       \A i \in Cols, l \in Layers(nl) :
         u[i][l] = IF QLt(dry, h[i][l])
                   THEN QAdd(sIn[i][l], QMul(QMul(hd.dt, hd.D), DepthLaplacian(i)))
                   ELSE sIn[i][l]
  /\ (pc = "hd_done" /\ ~QLt(Zero, hd.D)) => u = sIn

(***************************************************************************)
(* Properties of the timestep                                              *)
(***************************************************************************)
SolvePcs == {"assemble", "top", "bottom", "forward", "back", "done"}
HorizontalPcs == {"hd_begin", "hd_d2s", "hd_zl", "hd_d2sz", "hd_bulk", "hd_layer", "hd_done"}
OrchestratorPcs ==
  {"vt_begin", "vt_accel", "vt_call", "vt_hd", "vt_sub"} \cup SolvePcs \cup HorizontalPcs
TangentialPcs == {"ts_begin", "ts_while", "ts_foreach", "ts_finish"}

Viscous == QLt(Zero, nu)

RECURSIVE ColumnLog(_)
ColumnLog(j) ==
  IF j = 0 THEN <<>>
  ELSE ColumnLog(j - 1) \o <<Entry("add", order[j]), Entry("solve", order[j])>>

\* what one firing with nu > 0 does, in order
ExpectedLog ==
  ColumnLog(NCol) \o (IF h_diffusion THEN <<Entry("horizontal", "all")>> ELSE <<>>)
    \o <<Entry("sub", "all")>>

IsPrefix(s, t) == Len(s) <= Len(t) /\ SubSeq(t, 1, Len(s)) = s

\* the velocity of column i when the orchestrator began, plus (sg = 1) or minus
\* (sg = -1) the acceleration contribution
Accelerated(i, sg) ==
  [l \in Layers(nl) |-> QAdd(u0[i][l], QMul(QI(sg), AccelTerm(i, l)))]

\* the Navier solve of column i applied to the column sc
Solved(i, sc) ==
  vertical_diffusion_NeumanNavier(h[i], sc, nl, nu, dtv, DutAt(i), u_bAt(i), dubAt(i))

\* C6 as stated: with nu > 0 the orchestrator first subtracts the acceleration
\* contribution from every layer, then runs the Navier solve of each column, and
\* last adds the contribution back.
C6_Original ==
  /\ pc = "vt_call" => u[Here] = Accelerated(Here, -1)
  /\ (pc = "vt_done" /\ Viscous /\ ~h_diffusion) =>
       \A i \in Cols : \A l \in Layers(nl) :
         u[i][l] = QAdd(Solved(i, Accelerated(i, -1))[l], AccelTerm(i, l))

\* C6 amended: with nu > 0 one firing visits the columns once, and for each
\* column first ADDS dt*(ha + ha[1])/(hf + hf[1] + dry) to every layer and runs
\* the Navier solve of that column right away; after the last column it runs the
\* horizontal corrector if and only if h_diffusion is set, and last SUBTRACTS
\* the same contribution from every layer of every column; ha, hf and h are not
\* modified; with nu = 0 it does nothing.
C6_AddSolveSubtract ==
  /\ [](pc = "vt_call" => u[Here] = Accelerated(Here, 1))
  /\ []((pc \in OrchestratorPcs \ {"vt_begin"}) => IsPrefix(log, ExpectedLog))
  /\ []((pc = "vt_done" /\ Viscous) => log = ExpectedLog)
  /\ []((pc = "vt_done" /\ ~Viscous) => (log = <<>> /\ u = u0))
  /\ []((pc = "vt_done" /\ Viscous /\ ~h_diffusion) =>
          \A i \in Cols : \A l \in Layers(nl) :
            u[i][l] = QSub(Solved(i, Accelerated(i, 1))[l], AccelTerm(i, l)))
  /\ [][(pc \in OrchestratorPcs) => (ha' = ha /\ hf' = hf /\ h' = h)]_vars

C6_Witness ==
  /\ pc = "vt_done" /\ Viscous /\ h_diffusion
  /\ log = ExpectedLog
  /\ Len(log) = 2 * NCol + 2
  /\ \A i \in Cols : \A l \in Layers(nl) : AccelTerm(i, l) # Zero
  /\ u # u0

====
